---- MODULE Spec2Model ----
(***************************************************************************)
(* Scheduled multi-target dispatch of the crosspost plugin: the three      *)
(* schedulers (CrosspostSDK, CrosspostClient driven by the plugin loop,    *)
(* PersistentScheduler), the fan-out in postToAll and parallelLimit, the   *)
(* RateLimiter and withRetry.                                              *)
(*                                                                         *)
(* JavaScript runs one callback at a time: an action is the code that runs *)
(* between two suspension points (await, timer), so every interleaving of  *)
(* the actions is an interleaving the event loop can produce.              *)
(***************************************************************************)
EXTENDS Integers, Sequences, FiniteSets, TLC

\* ------------------------------------------------------------------ bounds
MaxJobs == 1
MaxTime == 1
MaxFaults == 1
MaxPosted == 4
MaxItems == 3
MaxConcurrency == 2
MaxClock == 4
MaxLimit == 2
MaxRetriesOption == 3
MaxTimers == 2
MaxAdds == 4
MaxBatch == 2
MaxCalls == 4

\* ------------------------------------------------------- scheduler inputs
Impl == {"sdk", "client", "persistent"}
\* adapters the constructor registers (enabled configs): twitter, linkedin
Adapters == {"twitter", "linkedin"}
TargetLists == {<<"twitter", "linkedin">>, <<"linkedin", "facebook">>}
\* the content arguments of schedulePost
Contents == {"hello", "news"}
\* a platforms value that is no array and not iterable, such as a number:
\* schedulePost stores it unchecked, and in postToAll targetPlatforms.map
\* (CrosspostSDK) or the for-of loop (CrosspostClient) throws a TypeError
NotIterable == <<"not iterable">>
\* the platforms arguments of schedulePost
JobPlatforms == TargetLists \cup {NotIterable}
\* concurrent activations of async functions (poll ticks, API calls)
Callers == {"a", "b"}

VARIABLES
  impl,            \* which class or utility the run exercises
  now,             \* Date.now()
  scheduledPosts,  \* the job Map, in insertion order: id -> versions of the job object
  call,            \* per caller: the activation of an async function
  stats,           \* CrosspostSDK.stats; the plugin's stats object
  persistence,     \* MemoryPersistenceAdapter: postResults and stats
  dispatched,      \* history: per job id, how many dispatches were started
  faults,          \* how many persistence calls have rejected
  returned,        \* the API call that returned in the last step, and its value
  parallel,        \* one parallelLimit(items, processor, concurrency) call
  limiter,         \* one RateLimiter and the acquire() calls waiting on it
  retry,           \* one withRetry(operation, options) call
  statsView,       \* the object the last getStats() call returned
  poller,          \* PersistentScheduler: isRunning, intervalId and the timers
  batch,           \* BatchProcessor: queue, processing, timer, add() promises
  throttled        \* throttle: the closure of one throttled function

jobVars == <<scheduledPosts, call, stats, persistence, dispatched, faults, returned>>
schedVars == <<impl, now, jobVars>>
utilVars == <<parallel, limiter, retry, statsView, poller, batch, throttled>>
vars == <<schedVars, utilVars>>

\* --------------------------------------------------------------- records
\* adapter.post(content): every adapter catches its own errors and returns
\* a PostResult; postId is '' on failure
AdapterPost(platform, ok) ==
  IF ok THEN [platform |-> platform, postId |-> "id", success |-> TRUE, error |-> ""]
        ELSE [platform |-> platform, postId |-> "", success |-> FALSE, error |-> "api error"]

\* variant: a failure result that carries no error message
NotConfiguredSilent(platform) ==
  [platform |-> platform, postId |-> "", success |-> FALSE, error |-> ""]

\* the result postToAll makes up for a platform without adapter
NotConfigured(platform) ==
  [platform |-> platform, postId |-> "", success |-> FALSE, error |-> "not configured"]

\* variant: the job is scheduled for the time of the call
NewJobNow(content, platforms, scheduledAt, t) ==
  [content |-> content, platforms |-> platforms, scheduledAt |-> t, status |-> "pending",
   results |-> <<>>, hasResults |-> FALSE, createdAt |-> t, updatedAt |-> t]

\* the object schedulePost builds: no results field
NewJob(content, platforms, scheduledAt, t) ==
  [content |-> content, platforms |-> platforms, scheduledAt |-> scheduledAt,
   status |-> "pending", results |-> <<>>, hasResults |-> FALSE, createdAt |-> t,
   updatedAt |-> t]

IdleCall ==
  [pc |-> "idle", kind |-> "none", id |-> 0, ver |-> 0, targets |-> <<>>,
   settled |-> <<>>, results |-> <<>>, tnow |-> 0, pos |-> 0, len |-> 0]

\* the arguments of a schedulePost call
NoArgs == [content |-> "", platforms |-> <<>>, scheduledAt |-> 0]

\* what an API call hands back: value is "null", "post", "true", "false",
\* "results" or "throw"; inflight records whether an execution of the job was
\* in flight when a cancel ran; targets, order and results are those of a
\* postToAll call (order: the order in which its posts completed)
Return(op, id, value, inflight) ==
  [op |-> op, id |-> id, value |-> value, inflight |-> inflight,
   targets |-> <<>>, order |-> <<>>, results |-> <<>>, args |-> NoArgs]

NoReturn == Return("none", 0, "none", FALSE)

StatKeys == {"scheduled_posts_created", "scheduled_posts_cancelled",
             "scheduled_posts_executed", "scheduled_posts_successful",
             "scheduled_posts_failed"}

EmptyPersistence == [postResults |-> <<>>, stats |-> [k \in StatKeys |-> 0]]

ZeroStats ==
  [totalPosts |-> 0, successfulPosts |-> 0, failedPosts |-> 0,
   platformBreakdown |-> [p \in Adapters |-> [posts |-> 0, successes |-> 0, failures |-> 0]]]

\* ------------------------------------------------------------ job access
Exists(id) == id \in 1..Len(scheduledPosts)
\* the object the Map holds for id (the newest version)
Stored(id) == scheduledPosts[id][Len(scheduledPosts[id])]

\* variant: a failed job may be executed again
ExecutableAgain(job) == job.status \in {"pending", "failed"}

\* the test executeScheduledPost makes on the job it found:
\* scheduledPost.status !== 'pending' returns null
Executable(job) == job.status = "pending"

\* variant: the cancel writes the time into scheduledAt
CancelledRescheduled(job, t) == [job EXCEPT !.status = "cancelled", !.scheduledAt = t]

\* variant: the cancel leaves updatedAt as it was
CancelledStale(job, t) == [job EXCEPT !.status = "cancelled"]

\* the writes of cancelScheduledPost: status = 'cancelled', updatedAt =
\* Date.now()
Cancelled(job, t) == [job EXCEPT !.status = "cancelled", !.updatedAt = t]

AllSuccess(results) == \A i \in 1..Len(results) : results[i].success

\* status = results.every(r => r.success) ? 'posted' : 'failed'
StatusOf(results) == IF AllSuccess(results) THEN "posted" ELSE "failed"

\* --------------------------------------------------------------- postToAll
\* indices whose promise is settled
SettledIdx(settled) == {settled[k].idx : k \in 1..Len(settled)}

ValueOf(settled, i) ==
  LET k == CHOOSE k \in 1..Len(settled) : settled[k].idx = i IN settled[k].res

\* variant: the values collected in the order of completion
CompletionOrderAll(settled, n) == [k \in 1..n |-> settled[k].res]

\* Promise.all: the values in the order of the promises, not of completion
PromiseAll(settled, n) == [i \in 1..n |-> ValueOf(settled, i)]

RECURSIVE StartSDK(_, _, _)
\* targetPlatforms.map(async platform => ...) of CrosspostSDK.postToAll: the
\* callbacks run in order; a platform without adapter settles at once
StartSDK(targets, i, settled) ==
  IF i > Len(targets) THEN settled
  ELSE StartSDK(targets, i + 1,
         IF targets[i] \in Adapters THEN settled
         ELSE Append(settled, [idx |-> i, res |-> NotConfigured(targets[i])]))

RECURSIVE SkipUnconfigured(_, _)
\* the for loop of CrosspostClient.postToAll, from index Len(results)+1 on:
\* pushes the failure of every platform without adapter until it reaches one
\* with an adapter (whose post it awaits) or the end
SkipUnconfigured(targets, results) ==
  LET i == Len(results) + 1 IN
  IF i > Len(targets) \/ targets[i] \in Adapters THEN results
  ELSE SkipUnconfigured(targets, Append(results, NotConfigured(targets[i])))

RECURSIVE CountStats(_, _, _)
\* CrosspostSDK.updateStats: the loop over the results
CountStats(s, results, i) ==
  IF i > Len(results) THEN s
  ELSE LET r == results[i] IN
       IF r.platform \in DOMAIN s.platformBreakdown
       THEN LET b == s.platformBreakdown[r.platform]
                nb == IF r.success
                      THEN [b EXCEPT !.posts = @ + 1, !.successes = @ + 1]
                      ELSE [b EXCEPT !.posts = @ + 1, !.failures = @ + 1]
                ns == [s EXCEPT !.platformBreakdown[r.platform] = nb,
                                !.successfulPosts = IF r.success THEN @ + 1 ELSE @,
                                !.failedPosts = IF r.success THEN @ ELSE @ + 1]
            IN CountStats(ns, results, i + 1)
       ELSE CountStats(s, results, i + 1)

updateStats(s, results) ==
  CountStats([s EXCEPT !.totalPosts = @ + Len(results)], results, 1)

\* some executeScheduledPost(id) is past its pending check and has not yet
\* written the final status
InFlight(id) ==
  \E c \in Callers : call[c].id = id /\ call[c].pc = "posting"

\* ---------------------------------------------------------------- actions
\* the clock advances
AdvanceTime ==
  /\ now < MaxTime
  /\ now' = now + 1
  /\ returned' = NoReturn
  /\ UNCHANGED <<impl, scheduledPosts, call, stats, persistence, dispatched, faults, utilVars>>

\* schedulePost(content, platforms, scheduledAt) of CrosspostSDK and
\* CrosspostClient: no validation, the job is stored pending
SchedulePost(content, platforms, scheduledAt) ==
  /\ impl \in {"sdk", "client"}
  /\ Len(scheduledPosts) < MaxJobs
  /\ scheduledPosts' = Append(scheduledPosts, <<NewJob(content, platforms, scheduledAt, now)>>)
  /\ returned' = [Return("schedule", Len(scheduledPosts) + 1, "post", FALSE) EXCEPT
                    !.args = [content |-> content, platforms |-> platforms,
                              scheduledAt |-> scheduledAt]]
  /\ UNCHANGED <<impl, now, call, stats, persistence, dispatched, faults, utilVars>>

\* postToAll(content, targets) up to its first await, in activation base:
\* CrosspostSDK starts every post, CrosspostClient the first one
StartPosts(base, targets) ==
  [base EXCEPT !.pc = "posting", !.targets = targets,
               !.settled = IF impl = "sdk" THEN StartSDK(targets, 1, <<>>) ELSE <<>>,
               !.results = IF impl = "sdk" THEN <<>> ELSE SkipUnconfigured(targets, <<>>)]

\* what the catch block of executeScheduledPost hands to the caller:
\* `return scheduledPost`
CatchReturns(id) == Return("execute", id, "post", FALSE)

\* executeScheduledPost(id) when `await this.postToAll(...)` rejects: the
\* catch block writes status failed and updatedAt, stores the job and
\* returns it; a poll loop that awaited the call goes on
ExecCatch(c, base, id) ==
  /\ dispatched' = [dispatched EXCEPT ![id] = @ + 1]
  /\ scheduledPosts' = [scheduledPosts EXCEPT ![id][Len(scheduledPosts[id])] =
        [@ EXCEPT !.status = "failed", !.updatedAt = now]]
  /\ call' = [call EXCEPT ![c] =
        IF base.kind = "tick" THEN [base EXCEPT !.pc = "resume"] ELSE IdleCall]
  /\ returned' = CatchReturns(id)

\* executeScheduledPost(id) of CrosspostSDK and CrosspostClient up to its
\* first await: the pending check, then postToAll starts the posts. base is
\* the caller's activation record
BeginExecute(c, base, id) ==
  IF ~Exists(id) \/ ~Executable(Stored(id))
  THEN /\ call' = [call EXCEPT ![c] = base]
       /\ returned' = Return("execute", id, "null", FALSE)
       /\ UNCHANGED <<dispatched, scheduledPosts>>
  ELSE IF Stored(id).platforms = NotIterable
  THEN ExecCatch(c, base, id)
  ELSE LET targets == Stored(id).platforms IN
       /\ dispatched' = [dispatched EXCEPT ![id] = @ + 1]
       /\ returned' = NoReturn
       /\ call' = [call EXCEPT ![c] =
            StartPosts([base EXCEPT !.id = id, !.ver = Len(scheduledPosts[id])], targets)]
       /\ UNCHANGED scheduledPosts

\* an explicit executeScheduledPost(id) call (the execute-now API)
ExecuteNow(c, id) ==
  /\ impl \in {"sdk", "client"}
  /\ call[c].pc = "idle"
  /\ BeginExecute(c, IdleCall, id)
  /\ UNCHANGED <<impl, now, stats, persistence, faults, utilVars>>

\* variant: every pending entry is executed, whatever its scheduledAt
DueFromAnyTime(from, limit, tnow) ==
  {p \in from..limit : Stored(p).status = "pending"}

\* variant: the comparison with the tick time reversed
DueFromReversed(from, limit, tnow) ==
  {p \in from..limit : Stored(p).status = "pending" /\ Stored(p).scheduledAt >= tnow}

\* the first entry at or after position from that the poll loop executes:
\* status pending and scheduledAt <= the time read at the start of the tick
DueFrom(from, limit, tnow) ==
  {p \in from..limit : Stored(p).status = "pending" /\ Stored(p).scheduledAt <= tnow}

\* the poll loop runs on from position `from` until it awaits an
\* executeScheduledPost or reaches the end of the entries
ScanFrom(c, base, from) ==
  LET limit == IF impl = "sdk" THEN Len(scheduledPosts) ELSE base.len
      due == DueFrom(from, limit, base.tnow)
  IN IF due = {}
     THEN /\ call' = [call EXCEPT ![c] = IdleCall]
          /\ returned' = NoReturn
          /\ UNCHANGED <<dispatched, scheduledPosts>>
     ELSE LET p == CHOOSE p \in due : \A q \in due : p <= q
          IN BeginExecute(c, [base EXCEPT !.pos = p], p)

\* CrosspostSDK.processScheduledPosts, called by the 30 s interval timer
\* whether or not an earlier tick is still running
ProcessScheduledPosts(c) ==
  /\ impl = "sdk"
  /\ call[c].pc = "idle"
  /\ ScanFrom(c, [IdleCall EXCEPT !.kind = "tick", !.tnow = now], 1)
  /\ UNCHANGED <<impl, now, stats, persistence, faults, utilVars>>

\* one round of the plugin's forked loop (index.ts): it snapshots
\* client.getScheduledPosts() and the time; the loop is a single fiber, so
\* no round starts while another one runs
PluginLoopRound(c) ==
  /\ impl = "client"
  /\ call[c].pc = "idle"
  /\ \A d \in Callers : call[d].kind # "tick"
  /\ ScanFrom(c, [IdleCall EXCEPT !.kind = "tick", !.tnow = now,
                                  !.len = Len(scheduledPosts)], 1)
  /\ UNCHANGED <<impl, now, stats, persistence, faults, utilVars>>

\* the catch block of the poll loop writes "Failed to execute scheduled
\* post" when the executeScheduledPost call it awaited has thrown
LoopLogs(r) == r.op = "execute" /\ r.value = "throw"

\* the poll loop after `await executeScheduledPost(id)`
LoopResume(c) ==
  /\ call[c].pc = "resume"
  /\ ScanFrom(c, [IdleCall EXCEPT !.kind = "tick", !.tnow = call[c].tnow,
                                  !.len = call[c].len], call[c].pos + 1)
  /\ UNCHANGED <<impl, now, stats, persistence, faults, utilVars>>

\* one adapter.post promise of a CrosspostSDK.postToAll settles; the posts
\* were all started together and settle in any order
AdapterSettle(c, i, ok) ==
  /\ impl = "sdk"
  /\ call[c].pc = "posting"
  /\ i \in 1..Len(call[c].targets)
  /\ i \notin SettledIdx(call[c].settled)
  /\ call' = [call EXCEPT ![c].settled =
                Append(@, [idx |-> i, res |-> AdapterPost(call[c].targets[i], ok)])]
  /\ returned' = NoReturn
  /\ UNCHANGED <<impl, now, scheduledPosts, stats, persistence, dispatched, faults, utilVars>>

\* CrosspostClient.postToAll: the awaited adapter.post returns, its result
\* is pushed and the loop goes on to the next platform that has an adapter
ClientPostSettle(c, ok) ==
  /\ impl = "client"
  /\ call[c].pc = "posting"
  /\ Len(call[c].results) < Len(call[c].targets)
  /\ LET i == Len(call[c].results) + 1
         pushed == Append(call[c].results, AdapterPost(call[c].targets[i], ok))
     IN call' = [call EXCEPT ![c].results = SkipUnconfigured(call[c].targets, pushed)]
  /\ returned' = NoReturn
  /\ UNCHANGED <<impl, now, scheduledPosts, stats, persistence, dispatched, faults, utilVars>>

\* every promise of the postToAll of activation c is settled
PostToAllDone(c) ==
  IF impl = "sdk" THEN SettledIdx(call[c].settled) = 1..Len(call[c].targets)
  ELSE Len(call[c].results) = Len(call[c].targets)

\* variant: only the successful results are returned
SuccessfulResults(c) ==
  SelectSeq(IF impl = "sdk" THEN PromiseAll(call[c].settled, Len(call[c].targets))
            ELSE call[c].results,
            LAMBDA r : r.success)

\* the array postToAll returns
PostToAllResults(c) ==
  IF impl = "sdk" THEN PromiseAll(call[c].settled, Len(call[c].targets))
  ELSE call[c].results

\* whether the results of the execution of activation c are counted in the
\* statistics: CrosspostSDK.postToAll always calls updateStats; in the plugin
\* the executeScheduledPost handler calls it on the returned post.results,
\* the forked loop does not
CountsExecution(c) == impl = "sdk" \/ call[c].kind # "tick"

\* executeScheduledPost from the moment `await this.postToAll(...)` resumes:
\* postToAll collects the results (CrosspostSDK: and updates the
\* statistics) and returns; results, status and updatedAt are written to
\* the job object and the job is returned (plugin: to the handler, which
\* updates the statistics, or to the loop)
ExecWriteBack(c) ==
  /\ impl \in {"sdk", "client"}
  /\ call[c].pc = "posting"
  /\ call[c].kind # "post"
  /\ PostToAllDone(c)
  /\ LET results == PostToAllResults(c) IN
       /\ stats' = IF CountsExecution(c) THEN updateStats(stats, results) ELSE stats
       /\ scheduledPosts' = [scheduledPosts EXCEPT ![call[c].id][call[c].ver] =
            [@ EXCEPT !.results = results, !.hasResults = TRUE,
                      !.status = StatusOf(results), !.updatedAt = now]]
  /\ call' = [call EXCEPT ![c] =
        IF call[c].kind = "tick" THEN [@ EXCEPT !.pc = "resume"] ELSE IdleCall]
  /\ returned' = Return("execute", call[c].id, "post", FALSE)
  /\ UNCHANGED <<impl, now, persistence, dispatched, faults, utilVars>>

\* cancelScheduledPost(id) of CrosspostSDK and CrosspostClient (no await
\* inside: the call runs to its end at once)
CancelScheduledPost(id) ==
  /\ impl \in {"sdk", "client"}
  /\ IF ~Exists(id) \/ Stored(id).status # "pending"
     THEN /\ returned' = Return("cancel", id, "false", InFlight(id))
          /\ UNCHANGED scheduledPosts
     ELSE /\ scheduledPosts' = [scheduledPosts EXCEPT ![id][Len(scheduledPosts[id])] =
                Cancelled(@, now)]
          /\ returned' = Return("cancel", id, "true", InFlight(id))
  /\ UNCHANGED <<impl, now, call, stats, persistence, dispatched, faults, utilVars>>

\* ------------------------------------------------------ postToAll, direct
\* the platforms arguments of direct postToAll calls
PostLists == TargetLists \cup {<<>>, <<"facebook", "twitter">>}

\* the order in which the posts of activation c completed
CompletionOrder(c) ==
  IF impl = "sdk" THEN [k \in 1..Len(call[c].settled) |-> call[c].settled[k].idx]
  ELSE [k \in 1..Len(call[c].results) |-> k]

\* a direct postToAll(content, platforms) call, up to its first await
PostToAll(c, targets) ==
  /\ impl \in {"sdk", "client"}
  /\ call[c].pc = "idle"
  /\ stats.totalPosts + Len(targets) <= MaxPosted
  /\ call' = [call EXCEPT ![c] = StartPosts([IdleCall EXCEPT !.kind = "post"], targets)]
  /\ returned' = NoReturn
  /\ UNCHANGED <<impl, now, scheduledPosts, stats, persistence, dispatched, faults, utilVars>>

\* the end of a direct postToAll: the results are collected, counted in the
\* statistics (by CrosspostSDK.postToAll itself, by the plugin's postNow
\* handler) and returned
PostToAllReturn(c) ==
  /\ impl \in {"sdk", "client"}
  /\ call[c].pc = "posting"
  /\ call[c].kind = "post"
  /\ PostToAllDone(c)
  /\ stats' = updateStats(stats, PostToAllResults(c))
  /\ returned' = [Return("postToAll", 0, "results", FALSE) EXCEPT
                    !.targets = call[c].targets, !.order = CompletionOrder(c),
                    !.results = PostToAllResults(c)]
  /\ call' = [call EXCEPT ![c] = IdleCall]
  /\ UNCHANGED <<impl, now, scheduledPosts, persistence, dispatched, faults, utilVars>>

\* ------------------------------------------------------------------ getStats
\* no getStats() call was made yet
NoView ==
  [taken |-> FALSE, totalPosts |-> 0, successfulPosts |-> 0, failedPosts |-> 0,
   scheduledPosts |-> 0]

\* platformBreakdown[platform] = breakdown: the returned object holds the
\* entries of the stats Map themselves, so reading one yields what the Map's
\* entry holds now (s is the current statistics)
BreakdownOf(view, s) == s.platformBreakdown

\* what the holder of the object returned by getStats() reads from it
ViewValue ==
  [totalPosts |-> statsView.totalPosts, successfulPosts |-> statsView.successfulPosts,
   failedPosts |-> statsView.failedPosts, scheduledPosts |-> statsView.scheduledPosts,
   platformBreakdown |-> BreakdownOf(statsView, stats)]

\* getStats() of CrosspostSDK and of the plugin's getStats handler: the
\* counters are copied, the per-platform entries are handed out as they are
GetStats ==
  /\ impl \in {"sdk", "client"}
  /\ statsView' = [taken |-> TRUE, totalPosts |-> stats.totalPosts,
                    successfulPosts |-> stats.successfulPosts,
                    failedPosts |-> stats.failedPosts,
                    scheduledPosts |-> Len(scheduledPosts)]
  /\ returned' = NoReturn
  /\ UNCHANGED <<impl, now, scheduledPosts, call, stats, persistence, dispatched, faults,
                 parallel, limiter, retry, poller, batch, throttled>>

\* ---------------------------------------------------- PersistentScheduler
\* A PersistenceAdapter call is asynchronous I/O and may reject; the store
\* is MemoryPersistenceAdapter's: getScheduledPost hands out the stored
\* object itself, save and update store a copy ({ ...post }).

\* the object activation c holds a reference to
Held(c) == scheduledPosts[call[c].id][call[c].ver]

\* the versions of job id that are still referenced: the one the Map holds
\* and those an activation holds
Live(p, cs, id) ==
  {Len(p[id])} \cup {cs[c].ver : c \in {d \in Callers : cs[d].id = id /\ cs[d].ver > 0}}

Rank(p, cs, id, v) == Cardinality({w \in Live(p, cs, id) : w <= v})

\* objects nothing references any more are dropped (garbage collection);
\* the references are renumbered accordingly
Commit(p, cs) ==
  /\ scheduledPosts' =
       [id \in DOMAIN p |->
          [k \in 1..Cardinality(Live(p, cs, id)) |->
             p[id][CHOOSE v \in Live(p, cs, id) : Rank(p, cs, id, v) = k]]]
  /\ call' = [c \in Callers |->
                IF cs[c].ver > 0
                THEN [cs[c] EXCEPT !.ver = Rank(p, cs, cs[c].id, cs[c].ver)]
                ELSE cs[c]]

\* a persistence call rejects (ok = FALSE) at most MaxFaults times
Outcome(ok) ==
  /\ ok \/ faults < MaxFaults
  /\ faults' = IF ok THEN faults ELSE faults + 1

\* persistence.incrementStat(key)
incrementStat(p, key) == [p EXCEPT !.stats[key] = @ + 1]

\* updateScheduledPost(post) on the versions of one job: the Map entry is
\* replaced by a copy of post, which is version ver
updateScheduledPost(versions, ver) == Append(versions, versions[ver])

\* PersistentScheduler.schedulePost(post) with a pending post: the copy is
\* saved, then scheduled_posts_created is counted; fail names the call that
\* rejects
PSSchedulePost(platforms, scheduledAt, fail) ==
  /\ impl = "persistent"
  /\ Len(scheduledPosts) < MaxJobs
  /\ Outcome(fail = "none")
  /\ IF fail = "save"
     THEN UNCHANGED <<scheduledPosts, persistence>>
     ELSE /\ scheduledPosts' = Append(scheduledPosts,
                                    <<NewJob("hello", platforms, scheduledAt, now)>>)
          /\ persistence' = IF fail = "stat" THEN persistence
                            ELSE incrementStat(persistence, "scheduled_posts_created")
  /\ returned' = NoReturn
  /\ UNCHANGED <<impl, now, call, stats, dispatched, utilVars>>

\* executeScheduledPost / cancelScheduledPost call
\* persistence.getScheduledPost(id) and await it
PSGet(c, id, op) ==
  /\ impl = "persistent"
  /\ call[c].pc = "idle"
  /\ call' = [call EXCEPT ![c] =
        [IdleCall EXCEPT !.pc = "fetched", !.kind = op, !.id = id,
                         !.ver = IF Exists(id) THEN Len(scheduledPosts[id]) ELSE 0]]
  /\ returned' = NoReturn
  /\ UNCHANGED <<impl, now, scheduledPosts, stats, persistence, dispatched, faults, utilVars>>

\* executeScheduledPost after the get: the pending check, then the
\* executeCallback is called
PSExecCheck(c) ==
  /\ impl = "persistent"
  /\ call[c].pc = "fetched"
  /\ call[c].kind = "exec"
  /\ IF call[c].ver = 0 \/ ~Executable(Held(c))
     THEN /\ Commit(scheduledPosts, [call EXCEPT ![c] = IdleCall])
          /\ returned' = Return("execute", call[c].id, "null", FALSE)
          /\ UNCHANGED dispatched
     ELSE /\ call' = [call EXCEPT ![c].pc = "posting", ![c].targets = Held(c).platforms]
          /\ dispatched' = [dispatched EXCEPT ![call[c].id] = @ + 1]
          /\ returned' = NoReturn
          /\ UNCHANGED scheduledPosts
  /\ UNCHANGED <<impl, now, stats, persistence, faults, utilVars>>

\* the executeCallback (the posting logic the caller connects) returns one
\* result per platform of the post; results, status and updatedAt are
\* written to the post and updateScheduledPost(post) is called
PSCallbackReturn(c, oks, ok) ==
  /\ impl = "persistent"
  /\ call[c].pc = "posting"
  /\ DOMAIN oks = 1..Len(call[c].targets)
  /\ Outcome(ok)
  /\ LET results == [i \in 1..Len(call[c].targets) |-> AdapterPost(call[c].targets[i], oks[i])]
         id == call[c].id
         written == [scheduledPosts[id] EXCEPT ![call[c].ver] =
                       [@ EXCEPT !.results = results, !.hasResults = TRUE,
                                 !.status = StatusOf(results), !.updatedAt = now]]
     IN Commit([scheduledPosts EXCEPT ![id] =
                  IF ok THEN updateScheduledPost(written, call[c].ver) ELSE written],
               [call EXCEPT ![c].results = results, ![c].pos = 1,
                  ![c].pc = IF ~ok THEN "catch"
                            ELSE IF results = <<>> THEN "counting" ELSE "saving"])
  /\ returned' = NoReturn
  /\ UNCHANGED <<impl, now, stats, persistence, dispatched, utilVars>>

\* the executeCallback throws
PSCallbackThrow(c) ==
  /\ impl = "persistent"
  /\ call[c].pc = "posting"
  /\ call' = [call EXCEPT ![c].pc = "catch"]
  /\ returned' = NoReturn
  /\ UNCHANGED <<impl, now, scheduledPosts, stats, persistence, dispatched, faults, utilVars>>

\* one round of `for (const result of results) await savePostResult(result)`
PSSaveResult(c, ok) ==
  /\ impl = "persistent"
  /\ call[c].pc = "saving"
  /\ Outcome(ok)
  /\ IF ok
     THEN /\ persistence' = [persistence EXCEPT
                !.postResults = Append(@, call[c].results[call[c].pos])]
          /\ call' = [call EXCEPT ![c].pos = @ + 1,
                ![c].pc = IF call[c].pos = Len(call[c].results) THEN "counting" ELSE "saving"]
     ELSE /\ call' = [call EXCEPT ![c].pc = "catch"]
          /\ UNCHANGED persistence
  /\ returned' = NoReturn
  /\ UNCHANGED <<impl, now, scheduledPosts, stats, dispatched, utilVars>>

\* await incrementStat("scheduled_posts_executed")
PSCountExecuted(c, ok) ==
  /\ impl = "persistent"
  /\ call[c].pc = "counting"
  /\ Outcome(ok)
  /\ IF ok
     THEN /\ persistence' = incrementStat(persistence, "scheduled_posts_executed")
          /\ call' = [call EXCEPT ![c].pc = "counting2"]
     ELSE /\ call' = [call EXCEPT ![c].pc = "catch"]
          /\ UNCHANGED persistence
  /\ returned' = NoReturn
  /\ UNCHANGED <<impl, now, scheduledPosts, stats, dispatched, utilVars>>

\* the incrementStat that depends on post.status, then `return post`
PSCountOutcome(c, ok) ==
  /\ impl = "persistent"
  /\ call[c].pc = "counting2"
  /\ Outcome(ok)
  /\ IF ok
     THEN /\ persistence' = incrementStat(persistence,
                IF Held(c).status = "posted" THEN "scheduled_posts_successful"
                ELSE "scheduled_posts_failed")
          /\ Commit(scheduledPosts, [call EXCEPT ![c] = IdleCall])
          /\ returned' = Return("execute", call[c].id, "post", FALSE)
     ELSE /\ call' = [call EXCEPT ![c].pc = "catch"]
          /\ returned' = NoReturn
          /\ UNCHANGED <<persistence, scheduledPosts>>
  /\ UNCHANGED <<impl, now, stats, dispatched, utilVars>>

\* the catch block of executeScheduledPost: status failed is written and
\* updateScheduledPost(post) is called; if that rejects, its error leaves
\* executeScheduledPost
PSCatch(c, ok) ==
  /\ impl = "persistent"
  /\ call[c].pc = "catch"
  /\ Outcome(ok)
  /\ LET id == call[c].id
         written == [scheduledPosts[id] EXCEPT ![call[c].ver] =
                       [@ EXCEPT !.status = "failed", !.updatedAt = now]]
     IN Commit([scheduledPosts EXCEPT ![id] =
                  IF ok THEN updateScheduledPost(written, call[c].ver) ELSE written],
               [call EXCEPT ![c] = IF ok THEN [@ EXCEPT !.pc = "catch2"] ELSE IdleCall])
  /\ returned' = IF ok THEN NoReturn
                 ELSE Return("execute", call[c].id, "throw", FALSE)
  /\ UNCHANGED <<impl, now, stats, persistence, dispatched, utilVars>>

\* the end of the catch block: scheduled_posts_failed is counted and the
\* error is thrown again
PSCatchCount(c, ok) ==
  /\ impl = "persistent"
  /\ call[c].pc = "catch2"
  /\ Outcome(ok)
  /\ persistence' = IF ok THEN incrementStat(persistence, "scheduled_posts_failed")
                    ELSE persistence
  /\ Commit(scheduledPosts, [call EXCEPT ![c] = IdleCall])
  /\ returned' = Return("execute", call[c].id, "throw", FALSE)
  /\ UNCHANGED <<impl, now, stats, dispatched, utilVars>>

\* PersistentScheduler.cancelScheduledPost after the get: the pending
\* check, the write of status cancelled and the updateScheduledPost call
PSCancelCheck(c, ok) ==
  /\ impl = "persistent"
  /\ call[c].pc = "fetched"
  /\ call[c].kind = "cancel"
  /\ IF call[c].ver = 0 \/ Held(c).status # "pending"
     THEN /\ ok
          /\ Commit(scheduledPosts, [call EXCEPT ![c] = IdleCall])
          /\ returned' = Return("cancel", call[c].id, "false", InFlight(call[c].id))
          /\ UNCHANGED faults
     ELSE LET id == call[c].id
              written == [scheduledPosts[id] EXCEPT ![call[c].ver] = Cancelled(@, now)]
          IN /\ Outcome(ok)
             /\ Commit([scheduledPosts EXCEPT ![id] =
                          IF ok THEN updateScheduledPost(written, call[c].ver) ELSE written],
                       [call EXCEPT ![c] =
                          IF ok THEN [@ EXCEPT !.pc = "cancelled"] ELSE IdleCall])
             /\ returned' = IF ok THEN NoReturn
                            ELSE Return("cancel", id, "throw", InFlight(id))
  /\ UNCHANGED <<impl, now, stats, persistence, dispatched, utilVars>>

\* the end of cancelScheduledPost: scheduled_posts_cancelled is counted and
\* true is returned
PSCancelCount(c, ok) ==
  /\ impl = "persistent"
  /\ call[c].pc = "cancelled"
  /\ Outcome(ok)
  /\ persistence' = IF ok THEN incrementStat(persistence, "scheduled_posts_cancelled")
                    ELSE persistence
  /\ Commit(scheduledPosts, [call EXCEPT ![c] = IdleCall])
  /\ returned' = Return("cancel", call[c].id, IF ok THEN "true" ELSE "throw",
                         InFlight(call[c].id))
  /\ UNCHANGED <<impl, now, stats, dispatched, utilVars>>

\* ------------------------------------- PersistentScheduler: start and stop
\* intervalId 0 is null; active: the interval timers that exist; logged: the
\* jobs for which a tick wrote "Processing scheduled post"
NoPoller == [isRunning |-> FALSE, intervalId |-> 0, active |-> {}, logged |-> {}]

\* the handle setInterval returns: a timer that does not exist yet
NewTimer(active) == CHOOSE h \in 1..MaxTimers : h \notin active /\ \A g \in 1..(h - 1) : g \in active

\* variant: start does not look at isRunning
AlwaysStart(running) == TRUE

\* start(): `if (this.isRunning) return`
MayStart(running) == ~running

\* PersistentScheduler.start(checkIntervalMs)
PSStart ==
  /\ impl = "persistent"
  /\ Cardinality(poller.active) < MaxTimers
  /\ poller' = IF MayStart(poller.isRunning)
                THEN [poller EXCEPT !.isRunning = TRUE,
                                    !.intervalId = NewTimer(poller.active),
                                    !.active = @ \cup {NewTimer(poller.active)}]
                ELSE poller
  /\ returned' = Return("start", 0, "none", FALSE)
  /\ UNCHANGED <<impl, now, scheduledPosts, call, stats, persistence, dispatched, faults,
                 parallel, limiter, retry, statsView, batch, throttled>>

\* PersistentScheduler.stop()
PSStop ==
  /\ impl = "persistent"
  /\ poller' = [poller EXCEPT !.isRunning = FALSE, !.intervalId = 0,
                               !.active = @ \ {poller.intervalId}]
  /\ returned' = Return("stop", 0, "none", FALSE)
  /\ UNCHANGED <<impl, now, scheduledPosts, call, stats, persistence, dispatched, faults,
                 parallel, limiter, retry, statsView, batch, throttled>>

\* the jobs processScheduledPosts finds due: status pending and scheduledAt
\* <= Date.now()
PSDue == {id \in 1..Len(scheduledPosts) :
            Stored(id).status = "pending" /\ Stored(id).scheduledAt <= now}

\* interval timer h fires: processScheduledPosts reads all posts and writes
\* a log line for every due one; it calls nothing else
PSTick(h) ==
  /\ impl = "persistent"
  /\ h \in poller.active
  /\ poller' = [poller EXCEPT !.logged = @ \cup PSDue]
  /\ returned' = NoReturn
  /\ UNCHANGED <<impl, now, scheduledPosts, call, stats, persistence, dispatched, faults,
                 parallel, limiter, retry, statsView, batch, throttled>>

\* ------------------------------------------------------------ parallelLimit
\* the items of a call: distinct values
ItemLists == {[k \in 1..m |-> 10 * k] : m \in 0..MaxItems}

\* the processor the caller passes: its value for an item
Processed(item) == item + 1

\* a slot of `new Array(items.length)` that was never assigned
Hole == [set |-> FALSE, value |-> 0]

NoParallel ==
  [pc |-> "idle", items |-> <<>>, concurrency |-> 0, i |-> 0, executing |-> <<>>,
   state |-> <<>>, results |-> <<>>, race |-> "none", order |-> <<>>]

\* Promise.race(executing) at the moment it is called: of the promises
\* already settled the first in array order decides; with none settled the
\* race is pending
RaceAtCall(p) ==
  LET done == {j \in 1..Len(p.executing) : p.state[p.executing[j]] # "running"} IN
  IF done = {} THEN "pending"
  ELSE p.state[p.executing[CHOOSE j \in done : \A k \in done : j <= k]]

RECURSIVE RunLoop(_)
\* the for loop from the head of iteration p.i to its next await: the
\* processor is called for items[i], its promise is pushed, and with
\* executing.length >= concurrency the loop awaits Promise.race(executing);
\* past the last item the function awaits Promise.all(executing)
RunLoop(p) ==
  IF p.i > Len(p.items) THEN [p EXCEPT !.pc = "all"]
  ELSE LET q == [p EXCEPT !.state[p.i] = "running", !.executing = Append(@, p.i),
                          !.i = @ + 1]
       IN IF Len(q.executing) >= q.concurrency
          THEN [q EXCEPT !.pc = "race", !.race = RaceAtCall(q)]
          ELSE RunLoop(q)

\* the `Remove completed promises` loop: Promise.race([executing[j].then(() =>
\* true), Promise.resolve(false)]) is decided by the reaction queued first,
\* which is the one of the already resolved Promise.resolve(false) (the
\* reaction of the new .then promise is queued one job later), so every
\* test yields false and nothing is spliced
Sweep(executing) == executing

\* parallelLimit(items, processor, concurrency) up to its first await
ParallelLimit(items, concurrency) ==
  /\ impl = "parallelLimit"
  /\ parallel.pc = "idle"
  /\ parallel' = RunLoop([NoParallel EXCEPT
        !.items = items, !.concurrency = concurrency, !.i = 1,
        !.state = [k \in 1..Len(items) |-> "unstarted"],
        !.results = [k \in 1..Len(items) |-> Hole]])
  /\ UNCHANGED <<schedVars, limiter, retry, statsView, poller, batch, throttled>>

\* the processor promise of item k settles: fulfilled, its then callback
\* stores results[k]; rejected, the callback is skipped and the promise in
\* executing rejects. A pending Promise.race is decided by it
ProcessorSettle(k, ok) ==
  /\ impl = "parallelLimit"
  /\ k \in 1..Len(parallel.items)
  /\ parallel.state[k] = "running"
  /\ parallel' = [parallel EXCEPT
        !.state[k] = IF ok THEN "fulfilled" ELSE "rejected",
        !.results[k] = IF ok THEN [set |-> TRUE, value |-> Processed(parallel.items[k])]
                       ELSE @,
        !.order = Append(@, k),
        !.race = IF @ = "pending" THEN (IF ok THEN "fulfilled" ELSE "rejected") ELSE @]
  /\ UNCHANGED <<schedVars, limiter, retry, statsView, poller, batch, throttled>>

\* `await Promise.race(executing)` resumes: a rejection leaves
\* parallelLimit; otherwise the sweep runs and the for loop goes on
RaceResume ==
  /\ impl = "parallelLimit"
  /\ parallel.pc = "race"
  /\ parallel.race \in {"fulfilled", "rejected"}
  /\ parallel' = IF parallel.race = "rejected"
                 THEN [parallel EXCEPT !.pc = "thrown", !.race = "none"]
                 ELSE RunLoop([parallel EXCEPT !.race = "none",
                                               !.executing = Sweep(@)])
  /\ UNCHANGED <<schedVars, limiter, retry, statsView, poller, batch, throttled>>

\* `await Promise.all(executing)` resumes: with every promise fulfilled the
\* results array is returned, with one rejected its error leaves
\* parallelLimit
AllResume ==
  /\ impl = "parallelLimit"
  /\ parallel.pc = "all"
  /\ LET states == {parallel.state[parallel.executing[j]] : j \in 1..Len(parallel.executing)}
     IN \/ /\ states \subseteq {"fulfilled"}
           /\ parallel' = [parallel EXCEPT !.pc = "done"]
        \/ /\ "rejected" \in states
           /\ parallel' = [parallel EXCEPT !.pc = "thrown"]
  /\ UNCHANGED <<schedVars, limiter, retry, statsView, poller, batch, throttled>>

\* -------------------------------------------------------------- RateLimiter
\* concurrent callers of acquire()
Clients == {"p", "q", "r"}
\* the windowMs arguments of the constructor
Windows == {2, 3}

\* wake[p]: -1 when p has no acquire() pending, else the time its
\* setTimeout(waitTime) is due; admissions: history of every timestamp pushed
NoLimiter ==
  [maxRequests |-> 0, windowMs |-> 0, requests |-> <<>>, admissions |-> <<>>,
   wake |-> [p \in Clients |-> -1]]

\* variant: a timestamp exactly windowMs old still counts
PruneLate(requests, t, windowMs) == SelectSeq(requests, LAMBDA time : t - time <= windowMs)

\* this.requests.filter(time => now - time < this.windowMs)
Prune(requests, t, windowMs) == SelectSeq(requests, LAMBDA time : t - time < windowMs)

\* variant: the limit test off by one
OverLimit(requests, maxRequests) == Len(requests) > maxRequests

\* this.requests.length >= this.maxRequests
AtLimit(requests, maxRequests) == Len(requests) >= maxRequests

\* windowMs - (now - oldestRequest), oldestRequest = this.requests[0]
WaitTime(requests, t, windowMs) == windowMs - (t - requests[1])

\* waitTime > 0; with no request left oldestRequest is undefined, waitTime
\* is NaN and the test is false
MustWait(requests, t, windowMs) ==
  requests # <<>> /\ WaitTime(requests, t, windowMs) > 0

\* one run of acquire() by client p, to its await or to its end
Acquire(p) ==
  LET kept == Prune(limiter.requests, now, limiter.windowMs) IN
  IF AtLimit(kept, limiter.maxRequests) /\ MustWait(kept, now, limiter.windowMs)
  THEN limiter' = [limiter EXCEPT !.requests = kept,
                     !.wake[p] = now + WaitTime(kept, now, limiter.windowMs)]
  ELSE limiter' = [limiter EXCEPT !.requests = Append(kept, now),
                     !.admissions = Append(@, now), !.wake[p] = -1]

\* new RateLimiter(maxRequests, windowMs): the arguments are stored as they
\* are (windowMs = 0 in the model: no limiter constructed yet)
NewRateLimiter(maxRequests, windowMs) ==
  /\ impl = "RateLimiter"
  /\ limiter.windowMs = 0
  /\ limiter' = [NoLimiter EXCEPT !.maxRequests = maxRequests, !.windowMs = windowMs]
  /\ UNCHANGED <<impl, now, jobVars, parallel, retry, statsView, poller, batch, throttled>>

\* a client calls acquire()
CallAcquire(p) ==
  /\ impl = "RateLimiter"
  /\ limiter.windowMs > 0
  /\ limiter.wake[p] = -1
  /\ Acquire(p)
  /\ UNCHANGED <<impl, now, jobVars, parallel, retry, statsView, poller, batch, throttled>>

\* variant: the wait of a blocked acquire() never ends
TimerLost(p) ==
  /\ impl = "RateLimiter"
  /\ limiter.wake[p] >= 0
  /\ now >= limiter.wake[p]
  /\ UNCHANGED vars

\* the timer of a waiting acquire() fires, at its due time or later, and
\* the call tries again (return this.acquire())
TimerFires(p) ==
  /\ impl = "RateLimiter"
  /\ limiter.wake[p] >= 0
  /\ now >= limiter.wake[p]
  /\ Acquire(p)
  /\ UNCHANGED <<impl, now, jobVars, parallel, retry, statsView, poller, batch, throttled>>

\* Date.now() advances
ClockTick ==
  /\ impl = "RateLimiter"
  /\ now < MaxClock
  /\ now' = now + 1
  /\ UNCHANGED <<impl, jobVars, limiter, parallel, retry, statsView, poller, batch, throttled>>

\* ----------------------------------------------------------- BatchProcessor
\* the items are numbered in the order of the add() calls; batchSize 0: no
\* BatchProcessor constructed yet. timer: the setTimeout of
\* scheduleProcessing is pending; inflight: the batches of the processor
\* invocations that have not settled; handed: every item passed to the
\* processor so far, in order; promise[k]: the promise add() returned for
\* item k, value the item whose result it was resolved with
NoBatch ==
  [batchSize |-> 0, queue |-> <<>>, processing |-> FALSE, timer |-> FALSE,
   inflight |-> <<>>, handed |-> <<>>, added |-> 0, flushing |-> FALSE,
   promise |-> [k \in 1..MaxAdds |-> [state |-> "none", value |-> 0]]]

\* variant: processBatch does not look at the processing flag
ProcessBatchAlways(processing, queue) == Len(queue) > 0

\* processBatch: `if (this.processing || this.queue.length === 0) return`
ProcessBatchRuns(processing, queue) == ~processing /\ Len(queue) > 0

\* this.queue.splice(0, this.batchSize): the elements removed
Splice(queue, batchSize) == SubSeq(queue, 1, IF batchSize < Len(queue) THEN batchSize ELSE Len(queue))

\* processBatch up to `await this.processor(items)`
ProcessBatch(b) ==
  IF ~ProcessBatchRuns(b.processing, b.queue) THEN b
  ELSE LET items == Splice(b.queue, b.batchSize) IN
       [b EXCEPT !.processing = TRUE, !.timer = FALSE,
                 !.queue = SubSeq(b.queue, Len(items) + 1, Len(b.queue)),
                 !.inflight = Append(@, items),
                 !.handed = @ \o items]

\* scheduleProcessing
ScheduleProcessing(b) ==
  IF b.processing THEN b
  ELSE IF Len(b.queue) >= b.batchSize THEN ProcessBatch(b)
  ELSE [b EXCEPT !.timer = TRUE]

\* variant: the finally block only clears the flag
FinallyIdle(b) == [b EXCEPT !.processing = FALSE]

\* the finally block of processBatch
Finally(b) ==
  LET idle == [b EXCEPT !.processing = FALSE]
  IN IF Len(idle.queue) > 0 THEN ScheduleProcessing(idle) ELSE idle

\* resolve or reject called on a promise: only a pending promise changes
Settle(p, state, value) ==
  IF p.state = "pending" THEN [state |-> state, value |-> value] ELSE p

\* new BatchProcessor(processor, batchSize, batchDelay)
NewBatchProcessor(batchSize) ==
  /\ impl = "BatchProcessor"
  /\ batch.batchSize = 0
  /\ batch' = [NoBatch EXCEPT !.batchSize = batchSize]
  /\ UNCHANGED <<impl, now, jobVars, parallel, limiter, retry, statsView, poller, throttled>>

\* add(item)
Add ==
  /\ impl = "BatchProcessor"
  /\ batch.batchSize > 0
  /\ batch.added < MaxAdds
  /\ LET k == batch.added + 1 IN
     batch' = ScheduleProcessing([batch EXCEPT !.added = k, !.queue = Append(@, k),
                                               !.promise[k] = [state |-> "pending", value |-> 0]])
  /\ UNCHANGED <<impl, now, jobVars, parallel, limiter, retry, statsView, poller, throttled>>

\* the batchDelay timer expires
BatchTimerExpires ==
  /\ impl = "BatchProcessor"
  /\ batch.timer
  /\ batch' = ProcessBatch([batch EXCEPT !.timer = FALSE])
  /\ UNCHANGED <<impl, now, jobVars, parallel, limiter, retry, statsView, poller, throttled>>

\* the promise of processor invocation i settles and processBatch goes on
\* after its await. outcome "ok": an array with a result for every item;
\* "short": the result of the last item is missing; "reject": a rejection
BatchSettles(i, outcome) ==
  /\ impl = "BatchProcessor"
  /\ i \in 1..Len(batch.inflight)
  /\ LET items == batch.inflight[i]
         index(k) == CHOOSE j \in 1..Len(items) : items[j] = k
         settled == [k \in 1..MaxAdds |->
            IF \A j \in 1..Len(items) : items[j] # k THEN batch.promise[k]
            ELSE IF outcome = "reject" \/ (outcome = "short" /\ index(k) = Len(items))
            THEN Settle(batch.promise[k], "rejected", 0)
            ELSE Settle(batch.promise[k], "resolved", items[index(k)])]
     IN batch' = Finally([batch EXCEPT
            !.promise = settled,
            !.inflight = [j \in 1..(Len(@) - 1) |-> IF j < i THEN @[j] ELSE @[j + 1]]])
  /\ UNCHANGED <<impl, now, jobVars, parallel, limiter, retry, statsView, poller, throttled>>

\* flush() with a non-empty queue: processBatch(), then checkEmpty polls
Flush ==
  /\ impl = "BatchProcessor"
  /\ batch.batchSize > 0
  /\ Len(batch.queue) > 0
  /\ batch' = [ProcessBatch(batch) EXCEPT !.flushing = TRUE]
  /\ UNCHANGED <<impl, now, jobVars, parallel, limiter, retry, statsView, poller, throttled>>

\* checkEmpty finds the queue empty and nothing processing: flush resolves
FlushResolves ==
  /\ impl = "BatchProcessor"
  /\ batch.flushing
  /\ Len(batch.queue) = 0 /\ ~batch.processing
  /\ batch' = [batch EXCEPT !.flushing = FALSE]
  /\ UNCHANGED <<impl, now, jobVars, parallel, limiter, retry, statsView, poller, throttled>>

\* ---------------------------------------------------------------- throttle
\* the limitMs arguments
ThrottleLimits == {2, 3}

\* the closure of throttle(func, limitMs); limitMs 0: nothing wrapped yet.
\* timeSinceLastCall is Date.now() - lastCall, counted up to limitMs (lastCall
\* starts at 0, a time far in the past); timeoutId is the call whose promise
\* the pending timer will resolve (0: null), remainingTime the time until the
\* timer is due; promise[k] is the promise call k returned
NoThrottle ==
  [limitMs |-> 0, timeSinceLastCall |-> 0, timeoutId |-> 0, remainingTime |-> 0,
   calls |-> 0, promise |-> [k \in 1..MaxCalls |-> "none"]]

\* throttle(func, limitMs)
NewThrottle(limitMs) ==
  /\ impl = "throttle"
  /\ throttled.limitMs = 0
  /\ throttled' = [NoThrottle EXCEPT !.limitMs = limitMs, !.timeSinceLastCall = limitMs]
  /\ UNCHANGED <<impl, now, jobVars, parallel, limiter, retry, statsView, poller, batch>>

\* a call of the throttled function: outside the window func runs at once
\* (ok: it returns; otherwise it throws inside the promise executor, which
\* rejects the promise); inside the window the pending timer, if any, is
\* cleared and a new one is set for this call
ThrottledCall(ok) ==
  /\ impl = "throttle"
  /\ throttled.limitMs > 0
  /\ throttled.calls < MaxCalls
  /\ LET k == throttled.calls + 1 IN
     IF throttled.timeSinceLastCall >= throttled.limitMs
     THEN throttled' = [throttled EXCEPT !.calls = k, !.timeSinceLastCall = 0,
                                         !.promise[k] = IF ok THEN "resolved" ELSE "rejected"]
     ELSE ok /\
          throttled' = [throttled EXCEPT !.calls = k, !.timeoutId = k,
                          !.remainingTime = throttled.limitMs - throttled.timeSinceLastCall,
                          !.promise[k] = "pending"]
  /\ UNCHANGED <<impl, now, jobVars, parallel, limiter, retry, statsView, poller, batch>>

\* the timer is due and its callback runs: lastCall = Date.now(), the
\* promise of the call that set the timer is resolved, timeoutId = null;
\* when func throws (ok false) the callback ends before resolve
ThrottleTimerFires(ok) ==
  /\ impl = "throttle"
  /\ throttled.timeoutId # 0
  /\ throttled.remainingTime = 0
  /\ throttled' = IF ok
                   THEN [throttled EXCEPT !.timeSinceLastCall = 0, !.timeoutId = 0,
                                          !.promise[throttled.timeoutId] = "resolved"]
                   ELSE [throttled EXCEPT !.timeSinceLastCall = 0, !.timeoutId = 0]
  /\ UNCHANGED <<impl, now, jobVars, parallel, limiter, retry, statsView, poller, batch>>

\* a millisecond passes
ThrottleTick ==
  /\ impl = "throttle"
  /\ throttled.limitMs > 0
  /\ throttled' = [throttled EXCEPT
        !.timeSinceLastCall = IF @ < throttled.limitMs THEN @ + 1 ELSE @,
        !.remainingTime = IF @ > 0 THEN @ - 1 ELSE @]
  /\ UNCHANGED <<impl, now, jobVars, parallel, limiter, retry, statsView, poller, batch>>

\* ---------------------------------------------------------------- withRetry
\* DEFAULT_RETRY_OPTIONS
baseDelay == 1000
maxDelay == 30000
backoffFactor == 2

\* the errors an operation throws: code or HTTP status (0: none)
Errors ==
  [code : {"NETWORK_ERROR", "ECONNRESET", ""},
   status : {0, 400, 401, 403, 404, 429, 499, 500, 503}]
\* the maxDelay options of the calls
MaxDelays == {maxDelay, 3000}

\* variant: rate-limit answers are not retried
retryServerErrors(error) ==
  \/ error.code = "NETWORK_ERROR"
  \/ error.status >= 500

\* DEFAULT_RETRY_OPTIONS.retryCondition
retryCondition(error) ==
  \/ error.code = "NETWORK_ERROR"
  \/ error.status >= 500
  \/ error.status = 429

NoError == [code |-> "", status |-> 0, at |-> 0]

\* calls: invocations of the operation; failures: those that threw; waits:
\* backoff timers set; retryable: every error so far passed retryCondition;
\* lastError.at, value: the invocation that threw, returned
NoRetry ==
  [pc |-> "idle", maxRetries |-> 0, maxDelay |-> 0, attempt |-> 0, calls |-> 0,
   failures |-> 0, waits |-> 0, retryable |-> TRUE, lastError |-> NoError,
   delay |-> 0, value |-> 0]

RECURSIVE Pow(_, _)
Pow(b, e) == IF e = 0 THEN 1 ELSE b * Pow(b, e - 1)

Min(a, b) == IF a <= b THEN a ELSE b

\* Math.min(baseDelay * Math.pow(backoffFactor, attempt), maxDelay)
\* variant: the delay is not capped
DelayUncapped(attempt, cap) == baseDelay * Pow(backoffFactor, attempt)

Delay(attempt, cap) == Min(baseDelay * Pow(backoffFactor, attempt), cap)

\* variant: only the last attempt ends the loop, whatever the error
BreakLastOnly(attempt, error, maxRetries) == attempt = maxRetries

\* variant: the last-attempt test counts attempts from 1
BreakEarly(attempt, error, maxRetries) ==
  attempt + 1 >= maxRetries \/ ~retryCondition(error)

\* the two breaks of the catch block: the last attempt, or an error the
\* retryCondition rejects
Break(attempt, error, maxRetries) ==
  attempt = maxRetries \/ ~retryCondition(error)

\* variant: the loop stops one attempt short
LoopConditionStrict(attempt, maxRetries) == attempt < maxRetries

\* the condition of `for (let attempt = 0; attempt <= config.maxRetries; attempt++)`
LoopCondition(attempt, maxRetries) == attempt <= maxRetries

\* withRetry(operation, {maxRetries, maxDelay}) up to `await operation()`
WithRetry(maxRetries, cap) ==
  /\ impl = "withRetry"
  /\ retry.pc = "idle"
  /\ retry' = [NoRetry EXCEPT !.maxRetries = maxRetries, !.maxDelay = cap,
                 !.pc = IF LoopCondition(0, maxRetries) THEN "calling" ELSE "rejected"]
  /\ UNCHANGED <<schedVars, parallel, limiter, statsView, poller, batch, throttled>>

\* the awaited operation() resolves: withRetry returns its value
OperationResolves ==
  /\ impl = "withRetry"
  /\ retry.pc = "calling"
  /\ retry' = [retry EXCEPT !.pc = "resolved", !.calls = @ + 1, !.value = retry.calls + 1]
  /\ UNCHANGED <<schedVars, parallel, limiter, statsView, poller, batch, throttled>>

\* the awaited operation() rejects with error: the catch block
OperationRejects(error) ==
  /\ impl = "withRetry"
  /\ retry.pc = "calling"
  /\ LET thrown == [code |-> error.code, status |-> error.status, at |-> retry.calls + 1]
         r == [retry EXCEPT !.calls = @ + 1, !.failures = @ + 1, !.lastError = thrown,
                            !.retryable = @ /\ retryCondition(error)]
     IN retry' = IF Break(retry.attempt, error, retry.maxRetries)
                 THEN [r EXCEPT !.pc = "rejected"]
                 ELSE [r EXCEPT !.pc = "sleeping", !.waits = @ + 1,
                                !.delay = Delay(retry.attempt, retry.maxDelay)]
  /\ UNCHANGED <<schedVars, parallel, limiter, statsView, poller, batch, throttled>>

\* the backoff timer fires: attempt++ and the loop condition; past the loop
\* lastError is thrown
BackoffEnds ==
  /\ impl = "withRetry"
  /\ retry.pc = "sleeping"
  /\ retry' = [retry EXCEPT !.attempt = @ + 1,
        !.pc = IF LoopCondition(retry.attempt + 1, retry.maxRetries) THEN "calling"
               ELSE "rejected"]
  /\ UNCHANGED <<schedVars, parallel, limiter, statsView, poller, batch, throttled>>

\* -------------------------------------------------------------------- Next
\* CrosspostSDK, and what CrosspostClient shares with it
NextSDK ==
  \/ AdvanceTime
  \/ \E x \in Contents, p \in JobPlatforms, t \in 0..MaxTime : SchedulePost(x, p, t)
  \/ \E c \in Callers, id \in 1..MaxJobs : ExecuteNow(c, id)
  \/ \E c \in Callers : ProcessScheduledPosts(c)
  \/ \E c \in Callers : LoopResume(c)
  \/ \E c \in Callers, i \in 1..2, ok \in BOOLEAN : AdapterSettle(c, i, ok)
  \/ \E c \in Callers : ExecWriteBack(c)
  \/ \E id \in 1..MaxJobs : CancelScheduledPost(id)

\* CrosspostClient under the plugin loop
NextClient ==
  \/ \E c \in Callers : PluginLoopRound(c)
  \/ \E c \in Callers, ok \in BOOLEAN : ClientPostSettle(c, ok)

\* PersistentScheduler
NextPS ==
  \/ AdvanceTime
  \/ \E p \in TargetLists, t \in 0..MaxTime, f \in {"none", "save", "stat"} :
        PSSchedulePost(p, t, f)
  \/ \E c \in Callers, id \in 1..MaxJobs, op \in {"exec", "cancel"} : PSGet(c, id, op)
  \/ \E c \in Callers : PSExecCheck(c)
  \/ \E c \in Callers, oks \in [1..2 -> BOOLEAN], ok \in BOOLEAN : PSCallbackReturn(c, oks, ok)
  \/ \E c \in Callers : PSCallbackThrow(c)
  \/ \E c \in Callers, ok \in BOOLEAN : PSSaveResult(c, ok)
  \/ \E c \in Callers, ok \in BOOLEAN : PSCountExecuted(c, ok)
  \/ \E c \in Callers, ok \in BOOLEAN : PSCountOutcome(c, ok)
  \/ \E c \in Callers, ok \in BOOLEAN : PSCatch(c, ok)
  \/ \E c \in Callers, ok \in BOOLEAN : PSCatchCount(c, ok)
  \/ \E c \in Callers, ok \in BOOLEAN : PSCancelCheck(c, ok)
  \/ \E c \in Callers, ok \in BOOLEAN : PSCancelCount(c, ok)

\* direct postToAll calls
NextPost ==
  \/ \E c \in Callers, p \in PostLists : PostToAll(c, p)
  \/ \E c \in Callers, i \in 1..2, ok \in BOOLEAN : AdapterSettle(c, i, ok)
  \/ \E c \in Callers, ok \in BOOLEAN : ClientPostSettle(c, ok)
  \/ \E c \in Callers : PostToAllReturn(c)

NextParallel ==
  \/ \E items \in ItemLists, n \in 1..MaxConcurrency : ParallelLimit(items, n)
  \/ \E k \in 1..MaxItems, ok \in BOOLEAN : ProcessorSettle(k, ok)
  \/ RaceResume
  \/ AllResume

NextLimiter ==
  \/ \E m \in 1..MaxLimit, w \in Windows : NewRateLimiter(m, w)
  \/ \E p \in Clients : CallAcquire(p)
  \/ \E p \in Clients : TimerFires(p)
  \/ ClockTick

NextBatch ==
  \/ \E n \in 1..MaxBatch : NewBatchProcessor(n)
  \/ Add
  \/ BatchTimerExpires
  \/ \E i \in 1..MaxAdds, o \in {"ok", "short", "reject"} : BatchSettles(i, o)
  \/ Flush
  \/ FlushResolves

NextThrottle ==
  \/ \E l \in ThrottleLimits : NewThrottle(l)
  \/ \E ok \in BOOLEAN : ThrottledCall(ok)
  \/ \E ok \in BOOLEAN : ThrottleTimerFires(ok)
  \/ ThrottleTick

NextRetry ==
  \/ \E m \in 0..MaxRetriesOption, d \in MaxDelays : WithRetry(m, d)
  \/ OperationResolves
  \/ \E e \in Errors : OperationRejects(e)
  \/ BackoffEnds

Next == NextSDK \/ NextClient \/ NextPS

\* ------------------------------------------------------------------- Init
InitOf(impls) ==
  /\ impl \in impls
  /\ now = 0
  /\ scheduledPosts = <<>>
  /\ call = [c \in Callers |-> IdleCall]
  /\ stats = ZeroStats
  /\ persistence = EmptyPersistence
  /\ dispatched = [id \in 1..MaxJobs |-> 0]
  /\ faults = 0
  /\ returned = NoReturn
  /\ parallel = NoParallel
  /\ limiter = NoLimiter
  /\ retry = NoRetry
  /\ statsView = NoView
  /\ poller = NoPoller
  /\ batch = NoBatch
  /\ throttled = NoThrottle

Init == InitOf(Impl)

\* the three schedulers, one of them per behaviour
Spec == Init /\ [][Next]_vars

\* CrosspostSDK alone
SpecSDK == InitOf({"sdk"}) /\ [][NextSDK]_vars

\* CrosspostSDK with its interval timer and CrosspostClient under the
\* plugin loop, with every API call
NextSched == NextSDK \/ NextClient
SpecSched == InitOf({"sdk", "client"}) /\ [][NextSched]_vars

\* schedulePost with any platforms argument, the empty list and a list with
\* a repeated platform included, followed by execute-now calls
SubmitPlatforms == JobPlatforms \cup {<<>>, <<"twitter", "twitter">>}
NextSubmit ==
  \/ AdvanceTime
  \/ \E x \in Contents, p \in SubmitPlatforms, t \in 0..MaxTime : SchedulePost(x, p, t)
  \/ \E c \in Callers, id \in 1..MaxJobs : ExecuteNow(c, id)
  \/ \E c \in Callers, i \in 1..2, ok \in BOOLEAN : AdapterSettle(c, i, ok)
  \/ \E c \in Callers, ok \in BOOLEAN : ClientPostSettle(c, ok)
  \/ \E c \in Callers : ExecWriteBack(c)

SpecSubmit == InitOf({"sdk", "client"}) /\ [][NextSubmit]_vars

\* PersistentScheduler alone
SpecPS == InitOf({"persistent"}) /\ [][NextPS]_vars

\* the fan-out: direct postToAll calls of CrosspostSDK and CrosspostClient,
\* and parallelLimit
NextFanout == NextPost \/ NextParallel
SpecFanout == InitOf({"sdk", "client", "parallelLimit"}) /\ [][NextFanout]_vars

\* the poll loops alone (CrosspostSDK's interval timer, the plugin's forked
\* loop over CrosspostClient): no execute-now call and no cancel
NextPoll ==
  \/ AdvanceTime
  \/ \E x \in Contents, p \in JobPlatforms, t \in 0..MaxTime : SchedulePost(x, p, t)
  \/ \E c \in Callers : ProcessScheduledPosts(c)
  \/ \E c \in Callers : PluginLoopRound(c)
  \/ \E c \in Callers : LoopResume(c)
  \/ \E c \in Callers, i \in 1..2, ok \in BOOLEAN : AdapterSettle(c, i, ok)
  \/ \E c \in Callers, ok \in BOOLEAN : ClientPostSettle(c, ok)
  \/ \E c \in Callers : ExecWriteBack(c)

\* setInterval fires again and again and the forked loop starts a round
\* after every sleep; every adapter.post call returns; a continuation whose
\* awaited promise is settled runs
FairPoll ==
  /\ WF_vars(\E c \in Callers : ProcessScheduledPosts(c))
  /\ WF_vars(\E c \in Callers : PluginLoopRound(c))
  /\ WF_vars(\E c \in Callers : LoopResume(c))
  /\ WF_vars(\E c \in Callers, i \in 1..2, ok \in BOOLEAN : AdapterSettle(c, i, ok))
  /\ WF_vars(\E c \in Callers, ok \in BOOLEAN : ClientPostSettle(c, ok))
  /\ WF_vars(\E c \in Callers : ExecWriteBack(c))

SpecPoll == InitOf({"sdk", "client"}) /\ [][NextPoll]_vars /\ FairPoll

\* direct postToAll calls and getStats calls
NextStats ==
  \/ \E c \in Callers, p \in PostLists : PostToAll(c, p)
  \/ \E c \in Callers, i \in 1..2, ok \in BOOLEAN : AdapterSettle(c, i, ok)
  \/ \E c \in Callers, ok \in BOOLEAN : ClientPostSettle(c, ok)
  \/ \E c \in Callers : PostToAllReturn(c)
  \/ GetStats

SpecStats == InitOf({"sdk", "client"}) /\ [][NextStats]_vars

\* RateLimiter
SpecLimiter == InitOf({"RateLimiter"}) /\ [][NextLimiter]_vars

\* PersistentScheduler left to its own polling: jobs are saved, the
\* scheduler is started and stopped, the interval timer keeps firing, and
\* nobody calls executeScheduledPost
NextPSPoll ==
  \/ AdvanceTime
  \/ \E p \in TargetLists, t \in 0..MaxTime, f \in {"none", "save", "stat"} :
        PSSchedulePost(p, t, f)
  \/ PSStart
  \/ PSStop
  \/ \E h \in 1..MaxTimers : PSTick(h)

SpecPSPoll ==
  /\ InitOf({"persistent"})
  /\ [][NextPSPoll]_vars
  /\ \A h \in 1..MaxTimers : WF_vars(PSTick(h))

\* RateLimiter constructed with any maxRequests argument, zero and negative
\* numbers included
Limits == -1..MaxLimit
NextAnyLimiter ==
  \/ \E m \in Limits, w \in Windows : NewRateLimiter(m, w)
  \/ \E p \in Clients : CallAcquire(p)
  \/ \E p \in Clients : TimerFires(p)
  \/ ClockTick

SpecAnyLimiter == InitOf({"RateLimiter"}) /\ [][NextAnyLimiter]_vars

\* RateLimiter as time advances: Date.now() keeps growing and every
\* setTimeout callback runs once it is due
FairLimiter ==
  /\ WF_vars(ClockTick)
  /\ \A p \in Clients : WF_vars(TimerFires(p))

SpecAcquire == InitOf({"RateLimiter"}) /\ [][NextLimiter]_vars /\ FairLimiter

\* BatchProcessor
SpecBatch == InitOf({"BatchProcessor"}) /\ [][NextBatch]_vars

\* BatchProcessor when the batchDelay timer fires, every processor
\* invocation settles and the polling of flush goes on
FairBatch ==
  /\ WF_vars(BatchTimerExpires)
  /\ WF_vars(\E i \in 1..MaxAdds, o \in {"ok", "short", "reject"} : BatchSettles(i, o))
  /\ WF_vars(FlushResolves)

SpecBatchFair == InitOf({"BatchProcessor"}) /\ [][NextBatch]_vars /\ FairBatch

\* a throttled function as time passes: every timer that is still set
\* fires once it is due
SpecThrottle ==
  /\ InitOf({"throttle"})
  /\ [][NextThrottle]_vars
  /\ WF_vars(ThrottleTick)
  /\ WF_vars(\E ok \in BOOLEAN : ThrottleTimerFires(ok))

\* withRetry
SpecRetry == InitOf({"withRetry"}) /\ [][NextRetry]_vars

\* ------------------------------------------------------------- properties
Terminal == {"posted", "failed", "cancelled"}

\* C1: at-most-once dispatch - for every job id and every interleaving of
\* executeScheduledPost calls on it, at most one caller passes the pending
\* check and dispatches the job's targets
C1_AtMostOnceDispatch ==
  \A id \in 1..MaxJobs : dispatched[id] <= 1

\* C2: a cancelScheduledPost(id) that runs while an execution of id is in
\* flight returns false and does not change the job
C2_CancelInFlightReturnsFalse ==
  (returned.op = "cancel" /\ returned.inflight) =>
     /\ returned.value = "false"
     /\ Stored(returned.id).status # "cancelled"

\* C3: terminal states are permanent - a step changes a job's status only
\* from pending, and only to posted, failed or cancelled
C3_TerminalStatesPermanent ==
  [][\A id \in 1..Len(scheduledPosts) :
       \/ Stored(id)'.status = Stored(id).status
       \/ Stored(id).status = "pending" /\ Stored(id)'.status \in Terminal]_vars

C5_PostedIffAllSuccess ==
  \A id \in 1..Len(scheduledPosts) :
    LET job == Stored(id) IN
    (job.hasResults /\ job.status \in {"posted", "failed"}) =>
       (job.status = "posted" <=> AllSuccess(job.results))

\* C6: postToAll returns one result per requested platform, result i being
\* the one of platforms[i], whatever the order of completion; parallelLimit
\* returns results[i] = processor(items[i]) for every i
C6_ResultsInRequestOrder ==
  /\ returned.op = "postToAll" =>
        /\ Len(returned.results) = Len(returned.targets)
        /\ \A i \in 1..Len(returned.targets) :
              returned.results[i].platform = returned.targets[i]
  /\ parallel.pc = "done" =>
        /\ DOMAIN parallel.results = 1..Len(parallel.items)
        /\ \A i \in 1..Len(parallel.items) :
              parallel.results[i] = [set |-> TRUE, value |-> Processed(parallel.items[i])]

\* a postToAll returns whose second post completed before its first
C6_Witness ==
  /\ returned.op = "postToAll"
  /\ returned.order = <<2, 1>>
  /\ Len(returned.results) = 2

\* C7: a failing target does not abort the batch - postToAll returns, the
\* failing target (one without adapter included) has a result with success =
\* false, an error message and an empty postId, and every other target has
\* its own result
C7_FailureDoesNotAbort ==
  returned.op = "postToAll" =>
    /\ returned.value = "results"
    /\ Len(returned.results) = Len(returned.targets)
    /\ \A i \in 1..Len(returned.targets) :
         LET r == returned.results[i] IN
         /\ r.platform = returned.targets[i]
         /\ returned.targets[i] \notin Adapters => ~r.success
         /\ ~r.success => (r.error # "" /\ r.postId = "")
         /\ r.success => (r.error = "" /\ r.postId # "")

\* a postToAll returns the failure of its first target, which has no
\* adapter, and the success of its second
C7_Witness ==
  /\ returned.op = "postToAll"
  /\ Len(returned.results) = 2
  /\ returned.targets[1] \notin Adapters
  /\ ~returned.results[1].success
  /\ returned.results[2].success

\* C8: the recorded admission timestamps are in non-decreasing order and
\* any maxRequests + 1 consecutive admissions span at least windowMs (so no
\* span shorter than windowMs holds more than maxRequests admissions, and in
\* a burst the (maxRequests+1)-th admission is at least windowMs after the
\* first)
C8_RateLimitSafety ==
  LET a == limiter.admissions
      r == limiter.requests
      m == limiter.maxRequests
  IN /\ \A i \in 1..(Len(a) - 1) : a[i] <= a[i + 1]
     /\ \A i \in 1..(Len(r) - 1) : r[i] <= r[i + 1]
     /\ \A i \in 1..Len(a) : i + m <= Len(a) => a[i + m] - a[i] >= limiter.windowMs

\* a burst of three calls on a limiter of one request per window: the second
\* admission came a full window after the first and the third call waits
C8_Witness ==
  /\ limiter.maxRequests = 1
  /\ Len(limiter.admissions) = 2
  /\ limiter.admissions[2] = limiter.admissions[1] + limiter.windowMs
  /\ \E p \in Clients : limiter.wake[p] > limiter.admissions[2]

\* C9: withRetry invokes the operation at most maxRetries + 1 times; when
\* every attempt fails with a retryable error it is invoked exactly
\* maxRetries + 1 times and withRetry rejects with the last attempt's error
C9_AttemptsBounded ==
  /\ retry.calls <= retry.maxRetries + 1
  /\ (retry.pc = "rejected" /\ retry.retryable) =>
        /\ retry.calls = retry.maxRetries + 1
        /\ retry.lastError.at = retry.calls

\* two retries allowed, three retryable failures: rejected after three calls
C9_Witness ==
  /\ retry.pc = "rejected"
  /\ retry.retryable
  /\ retry.maxRetries = 2
  /\ retry.calls = 3

\* C10: after n <= maxRetries retryable failures withRetry has not given
\* up, and when the operation then succeeds withRetry resolves with that
\* value after exactly n + 1 invocations
C10_SucceedsAfterFailures ==
  /\ (retry.pc # "idle" /\ retry.retryable /\ retry.failures <= retry.maxRetries) =>
        retry.pc \in {"calling", "sleeping", "resolved"}
  /\ retry.pc = "resolved" =>
        /\ retry.calls = retry.failures + 1
        /\ retry.value = retry.calls
        /\ retry.failures <= retry.maxRetries

\* maxRetries = 3 retryable failures, then the fourth invocation succeeds
C10_Witness ==
  /\ retry.pc = "resolved"
  /\ retry.maxRetries = 3
  /\ retry.failures = 3
  /\ retry.retryable

\* C11: when the latest attempt failed with an error retryCondition rejects,
\* withRetry has rejected with that error at once: no later invocation and
\* no backoff timer after it (one timer per earlier failure only)
C11_NonRetryableStops ==
  (retry.failures > 0 /\ ~retryCondition(retry.lastError)) =>
     /\ retry.pc = "rejected"
     /\ retry.lastError.at = retry.calls
     /\ retry.waits = retry.calls - 1

\* a retryable failure, then a non-retryable one at the second of four
\* allowed attempts
C11_Witness ==
  /\ retry.pc = "rejected"
  /\ retry.maxRetries = 3
  /\ retry.calls = 2
  /\ retry.lastError.status = 400

\* the processor invocations started and not yet settled
Running == {k \in 1..Len(parallel.items) : parallel.state[k] = "running"}

\* C12: bounded fan-out - during a parallelLimit(items, processor, C) call at
\* most C processor invocations are started and not yet settled
C12_BoundedFanOut ==
  parallel.pc # "idle" => Cardinality(Running) <= parallel.concurrency

\* the adapter.post calls of activation c that are started and not yet
\* settled: CrosspostSDK starts one per platform with an adapter,
\* CrosspostClient awaits one at a time
Attempts(c) ==
  IF call[c].pc # "posting" THEN {}
  ELSE IF impl = "sdk"
       THEN {i \in 1..Len(call[c].targets) :
               call[c].targets[i] \in Adapters /\ i \notin SettledIdx(call[c].settled)}
       ELSE {i \in 1..Len(call[c].targets) : i = Len(call[c].results) + 1}

\* C13: in a dispatch every adapter publish attempt is preceded by a
\* completed rate-limiter admission - the limiter has admitted at least as
\* many requests as there are publish attempts under way
C13_AdmissionBeforePublish ==
  \A c \in Callers : Cardinality(Attempts(c)) <= Len(limiter.admissions)

\* how many times adapter.post was called for each target of job id:
\* postToAll calls it once per target, so once per dispatch of the job
PublishAttempts(id) == dispatched[id]

\* C14: retry inside dispatch - with maxRetries >= 1 a publish that fails
\* with a retryable error (HTTP 500) is attempted again, so a failure of a
\* target that has an adapter is visible in a job's results only after at
\* least two publish attempts at that target; a first-attempt failure that
\* a second attempt would turn into a success never makes the job failed
C14_RetryInsideDispatch ==
  \A id \in 1..Len(scheduledPosts) :
    LET job == Stored(id) IN
    (job.hasResults /\ PublishAttempts(id) < 2) =>
       \A i \in 1..Len(job.results) :
          job.results[i].platform \in Adapters => job.results[i].success

\* C15: when the dispatch step itself throws during executeScheduledPost,
\* the job is written back with status failed and without results, and the
\* error is raised again to the caller of executeScheduledPost
C15_DispatchThrowReraised ==
  (/\ returned.op = "execute"
   /\ returned.value # "null"
   /\ Stored(returned.id).platforms = NotIterable) =>
     /\ returned.value = "throw"
     /\ Stored(returned.id).status = "failed"
     /\ ~Stored(returned.id).hasResults

\* C16: liveness of scheduled dispatch - every job that is pending with
\* scheduledAt <= now is eventually moved to posted or failed by the poll
\* loop, without any explicit execute call, when the poll ticks keep firing
\* and every adapter post call returns
C16_DueJobsEventuallyRun ==
  \A id \in 1..MaxJobs :
    (Exists(id) /\ Stored(id).status = "pending" /\ Stored(id).scheduledAt <= now)
      ~> (Exists(id) /\ Stored(id).status \in {"posted", "failed"})

\* the poll loop's executeScheduledPost returns a job scheduled for time 1
\* as posted
C16_Witness ==
  /\ returned.op = "execute"
  /\ returned.value = "post"
  /\ Stored(returned.id).scheduledAt = 1
  /\ Stored(returned.id).status = "posted"

\* C17: the poll loop never dispatches a job whose scheduledAt is later than
\* the time read at the tick, nor a job that is not pending when the loop
\* reaches it; a job cancelled before any execution began is never
\* dispatched afterwards
C17_PollDispatchesOnlyDue ==
  [][\A id \in 1..Len(scheduledPosts) :
       /\ \A c \in Callers :
            (/\ dispatched'[id] > dispatched[id]
             /\ call'[c] # call[c]
             /\ call'[c].kind = "tick") =>
               /\ Stored(id).status = "pending"
               /\ Stored(id).scheduledAt <= call'[c].tnow
               /\ call'[c].tnow <= now
       /\ (Stored(id).status = "cancelled" /\ dispatched[id] = 0) =>
             dispatched'[id] = 0]_vars

\* a tick that read time 1 has dispatched a job scheduled for time 1
C17_Witness ==
  \E c \in Callers :
    /\ call[c].kind = "tick"
    /\ call[c].pc = "posting"
    /\ call[c].tnow = 1
    /\ Stored(call[c].id).scheduledAt = 1

\* C18: executeScheduledPost(id) on an id that is absent or whose job is not
\* pending returns null and is a no-op - a call that returns null changes no
\* job, no statistic and no stored result and starts no adapter call, and a
\* dispatch starts only for a job that exists and is pending
C18_ExecuteNonPendingIsNoOp ==
  [][/\ (returned'.op = "execute" /\ returned'.value = "null") =>
          /\ stats' = stats
          /\ persistence' = persistence
          /\ dispatched' = dispatched
          /\ Len(scheduledPosts') = Len(scheduledPosts)
          /\ \A id \in 1..Len(scheduledPosts) : Stored(id)' = Stored(id)
          /\ \A c \in Callers : call'[c].pc = "posting" => call[c].pc = "posting"
     /\ \A id \in 1..MaxJobs :
          dispatched'[id] > dispatched[id] =>
            /\ Exists(id)
            /\ \E v \in 1..Len(scheduledPosts[id]) :
                  scheduledPosts[id][v].status = "pending"]_vars

\* executeScheduledPost has returned null for a cancelled job
C18_Witness ==
  /\ returned.op = "execute"
  /\ returned.value = "null"
  /\ Exists(returned.id)
  /\ Stored(returned.id).status = "cancelled"

\* C19: cancelScheduledPost(id) on a pending job with no execution in
\* progress sets status to cancelled, sets updatedAt to the current time,
\* changes nothing else and returns true; on an absent id or a job that is
\* posted, failed or cancelled it returns false and leaves every job as it
\* was
C19_CancelSemantics ==
  [][\A id \in 1..MaxJobs : (returned'.op = "cancel" /\ returned'.id = id) =>
       /\ (Exists(id) /\ Stored(id).status = "pending" /\ ~InFlight(id)) =>
            /\ returned'.value = "true"
            /\ Stored(id)' = [Stored(id) EXCEPT !.status = "cancelled", !.updatedAt = now]
       /\ (~Exists(id) \/ Stored(id).status \in Terminal) =>
            /\ returned'.value = "false"
            /\ scheduledPosts' = scheduledPosts]_vars

\* a cancel at time 1 of a job created at time 0, with no execution in
\* progress, has returned true
C19_Witness ==
  /\ returned.op = "cancel"
  /\ returned.value = "true"
  /\ ~returned.inflight
  /\ Stored(returned.id).status = "cancelled"
  /\ Stored(returned.id).createdAt = 0
  /\ Stored(returned.id).updatedAt = 1

\* C20: statistics are updated exactly once per job execution, from that
\* execution's final result set, whether the poll loop or the execute-now
\* API started it - the step in which an execution hands back the job with
\* its results increases the counters by exactly those results
C20_StatsOncePerExecution ==
  [][\A id \in 1..MaxJobs :
       (/\ returned'.op = "execute"
        /\ returned'.id = id
        /\ returned'.value = "post"
        /\ Stored(id)'.hasResults) =>
          stats' = updateStats(stats, Stored(id)'.results)]_vars

\* C21: getStats returns a snapshot - as long as the holder keeps the object
\* one getStats() call returned, nothing it reads from that object changes,
\* the per-platform posts, successes and failures included, whatever results
\* later calls record
C21_GetStatsSnapshot ==
  [][(statsView.taken /\ statsView' = statsView) => ViewValue' = ViewValue]_vars

C23_AdmitsWithinLimit ==
  [][LET recent == {k \in 1..Len(limiter.requests) :
                      now - limiter.requests[k] < limiter.windowMs}
     IN (/\ limiter.maxRequests > 0
         /\ limiter' # limiter
         /\ Cardinality(recent) < limiter.maxRequests) =>
           /\ Len(limiter'.requests) = Cardinality(recent) + 1
           /\ limiter'.requests[Len(limiter'.requests)] = now
           /\ limiter'.admissions = Append(limiter.admissions, now)
           /\ \A p \in Clients : limiter'.wake[p] \in {-1, limiter.wake[p]}]_vars

\* with one request per window of 2, a call at time 2 was admitted after
\* the timestamp 0 had been pruned
C23_Witness ==
  /\ limiter.maxRequests = 1
  /\ limiter.windowMs = 2
  /\ limiter.admissions = <<0, 2>>
  /\ limiter.requests = <<2>>
  /\ \A p \in Clients : limiter.wake[p] = -1

\* C24: constructing a RateLimiter with maxRequests <= 0 raises an error, so
\* no limiter with a non-positive limit exists and acquire() is never
\* evaluated against one
C24_NoNonPositiveLimit ==
  limiter.windowMs > 0 => limiter.maxRequests >= 1

\* C25: the backoff wait after the failed attempt with index k is
\* min(baseDelay * backoffFactor^k, maxDelay), that is 1000, 2000, 4000,
\* 8000, 16000 ms for k = 0..4 capped at maxDelay; no wait exceeds
\* maxDelay; with maxRetries = 0 there is one attempt and no wait
C25_BackoffDelay ==
  LET doubling == <<1000, 2000, 4000, 8000, 16000>> IN
  /\ retry.pc = "sleeping" =>
        /\ retry.delay = IF doubling[retry.attempt + 1] <= retry.maxDelay
                          THEN doubling[retry.attempt + 1] ELSE retry.maxDelay
        /\ retry.delay <= retry.maxDelay
        /\ retry.waits = retry.attempt + 1
  /\ (retry.pc # "idle" /\ retry.maxRetries = 0) =>
        /\ retry.waits = 0
        /\ retry.calls <= 1
        /\ retry.pc # "sleeping"

\* with maxDelay = 3000 the wait after the third failed attempt is 3000
C25_Witness ==
  /\ retry.pc = "sleeping"
  /\ retry.attempt = 2
  /\ retry.maxDelay = 3000
  /\ retry.delay = 3000

\* C26: the default retry classifier accepts exactly the errors with code
\* NETWORK_ERROR, with a status of 500 or more, or with status 429 - after a
\* failed attempt that is not the last one, withRetry waits for a retry if
\* the error is one of those and rejects if it is any other error (400,
\* 401, 403, 404 and 499 included)
C26_DefaultClassifier ==
  LET e == retry.lastError
      accepted == e.code = "NETWORK_ERROR" \/ e.status \in {429, 500, 503}
  IN /\ retry.pc = "sleeping" => accepted
     /\ (retry.pc = "rejected" /\ retry.calls <= retry.maxRetries) => ~accepted

\* the first attempt failed with status 404 and the call was rejected
\* although three retries were allowed
C26_Witness ==
  /\ retry.pc = "rejected"
  /\ retry.maxRetries = 3
  /\ retry.calls = 1
  /\ retry.lastError.status = 404
  /\ retry.lastError.code = ""

\* C27: schedulePost(content, platforms, scheduledAt) stores one new job
\* with status pending, the given content, platforms and scheduledAt and no
\* results, and returns it; it starts no adapter call and changes no other
\* job; the job stays in the Map with those three fields from then on
C27_SchedulePostStoresPending ==
  [][/\ (Len(scheduledPosts') # Len(scheduledPosts) \/ returned'.op = "schedule") =>
          LET job == scheduledPosts'[Len(scheduledPosts')][1] IN
          /\ Len(scheduledPosts') = Len(scheduledPosts) + 1
          /\ Len(scheduledPosts'[Len(scheduledPosts')]) = 1
          /\ \A id \in 1..Len(scheduledPosts) : scheduledPosts'[id] = scheduledPosts[id]
          /\ returned'.op = "schedule"
          /\ returned'.value = "post"
          /\ returned'.id = Len(scheduledPosts')
          /\ job.status = "pending"
          /\ job.content = returned'.args.content
          /\ job.platforms = returned'.args.platforms
          /\ job.scheduledAt = returned'.args.scheduledAt
          /\ ~job.hasResults
          /\ job.results = <<>>
          /\ call' = call
          /\ dispatched' = dispatched
          /\ stats' = stats
     /\ \A id \in 1..Len(scheduledPosts) :
          /\ Stored(id)'.content = Stored(id).content
          /\ Stored(id)'.platforms = Stored(id).platforms
          /\ Stored(id)'.scheduledAt = Stored(id).scheduledAt]_vars

\* schedulePost has just returned a job scheduled for time 1 with content
\* "news", stored at time 0
C27_Witness ==
  /\ returned.op = "schedule"
  /\ Stored(returned.id).content = "news"
  /\ Stored(returned.id).scheduledAt = 1
  /\ Stored(returned.id).createdAt = 0
  /\ Stored(returned.id).status = "pending"

\* C28: a schedule request whose target list is empty or holds a duplicate
\* stores no job - no stored job has an empty platforms list or a repeated
\* platform, and no job is posted with zero results
C28_NoEmptyOrDuplicateTargets ==
  \A id \in 1..Len(scheduledPosts) :
    LET job == Stored(id) IN
    /\ job.platforms # <<>>
    /\ \A i, j \in 1..Len(job.platforms) :
          job.platforms[i] = job.platforms[j] => i = j
    /\ ~(job.status = "posted" /\ job.results = <<>>)

\* C29: a schedule request with scheduledAt <= now is rejected and stores no
\* job - every stored job has scheduledAt later than its creation time
C29_ScheduledInFuture ==
  \A id \in 1..Len(scheduledPosts) :
    Stored(id).scheduledAt > Stored(id).createdAt

\* the targets of activation c whose adapter.post call has returned
Finished(c) ==
  IF impl = "sdk" THEN SettledIdx(call[c].settled) ELSE 1..Len(call[c].results)

\* C30: within one postToAll call the publish attempt for each target is
\* started without waiting for another target's attempt to finish - while
\* the call is under way, every target that has an adapter has its attempt
\* either running or finished
C30_TargetsStartTogether ==
  \A c \in Callers :
    call[c].pc = "posting" =>
      \A i \in 1..Len(call[c].targets) :
        call[c].targets[i] \in Adapters => i \in Attempts(c) \cup Finished(c)

\* C31: once PersistentScheduler.start has been called, a job saved as
\* pending with scheduledAt <= now eventually leaves the pending state
\* through the scheduler's own polling (as long as the scheduler is not
\* stopped), without any executeScheduledPost call from outside
C31_PollerExecutesDueJobs ==
  \A id \in 1..MaxJobs :
    (/\ poller.isRunning
     /\ Exists(id)
     /\ Stored(id).status = "pending"
     /\ Stored(id).scheduledAt <= now)
      ~> (~poller.isRunning \/ (Exists(id) /\ Stored(id).status # "pending"))

\* the timer state start and stop keep: at most one interval timer exists,
\* it is the one intervalId names, and isRunning is true iff intervalId is set
OneTimer ==
  /\ Cardinality(poller.active) <= 1
  /\ poller.isRunning <=> poller.intervalId # 0
  /\ poller.active = IF poller.intervalId # 0 THEN {poller.intervalId} ELSE {}

\* C36: after any sequence of start and stop calls at most one poll interval
\* timer is active, one is active exactly when the most recent call was
\* start (isRunning iff intervalId set), and a repeated start creates no
\* second timer
C36_AtMostOneTimer ==
  [][/\ OneTimer'
     /\ returned'.op = "start" => poller'.isRunning /\ Cardinality(poller'.active) = 1
     /\ returned'.op = "stop" => ~poller'.isRunning /\ poller'.active = {}
     /\ (poller.isRunning /\ returned'.op = "start") => poller' = poller]_vars

\* start has just returned on a scheduler whose timer had already fired
C36_Witness ==
  /\ returned.op = "start"
  /\ poller.isRunning
  /\ poller.logged # {}
  /\ Cardinality(poller.active) = 1

\* C32: when the execution of a due job fails during a tick of the poll
\* loop, the loop logs the failure (and goes on with the other due jobs and
\* the next ticks)
C32_TickFailureLogged ==
  [][\A id \in 1..MaxJobs :
       (/\ Exists(id)
        /\ Stored(id).status = "pending"
        /\ Stored(id)'.status = "failed")
         => LoopLogs(returned')]_vars

\* C33: executeScheduledPost, cancelScheduledPost and the poll loop never
\* remove a job and never change its content, platforms, scheduledAt or
\* createdAt; updatedAt never decreases and is never earlier than createdAt
C33_JobFrame ==
  [][\A id \in 1..MaxJobs :
       Exists(id) =>
         /\ Exists(id)'
         /\ Stored(id)'.content = Stored(id).content
         /\ Stored(id)'.platforms = Stored(id).platforms
         /\ Stored(id)'.scheduledAt = Stored(id).scheduledAt
         /\ Stored(id)'.createdAt = Stored(id).createdAt
         /\ Stored(id)'.updatedAt >= Stored(id).updatedAt
         /\ Stored(id)'.updatedAt >= Stored(id)'.createdAt]_vars

\* a job that was executed or cancelled later than it was created
C33_Witness ==
  \E id \in 1..MaxJobs :
    /\ Exists(id)
    /\ Stored(id).status \in {"posted", "failed", "cancelled"}
    /\ Stored(id).updatedAt > Stored(id).createdAt

\* C34: after any sequence of postToAll and executeScheduledPost calls
\* totalPosts = successfulPosts + failedPosts, also when a requested
\* platform has no configured adapter
C34_CountersAddUp ==
  impl \in {"sdk", "client"} => stats.totalPosts = stats.successfulPosts + stats.failedPosts

\* C35: the record getScheduledPost returned is isolated from the store:
\* in a step in which a persistence call of PersistentScheduler rejects
\* (the write-back updateScheduledPost among them) the record the store
\* hands to readers stays what it was
C35_ReadersSeePersistedState ==
  [][faults' > faults =>
       \A id \in 1..MaxJobs : Exists(id) => Stored(id)' = Stored(id)]_vars

\* C37: BatchProcessor never has two processor invocations in flight, never
\* passes more than batchSize items to one invocation, and hands the items
\* to the processor in the order they were added, whatever the interleaving
\* of add, timer expiry, flush and processor completion
C37_OneBatchInOrder ==
  /\ Len(batch.inflight) <= 1
  /\ \A i \in 1..Len(batch.inflight) :
       Len(batch.inflight[i]) \in 1..batch.batchSize
  /\ batch.handed = [k \in 1..Len(batch.handed) |-> k]

\* a second batch is being processed, made of items that were added while
\* the first one was in flight and started by flush
C37_Witness ==
  /\ batch.batchSize = 2
  /\ batch.flushing
  /\ batch.inflight = <<(<<2, 3>>)>>

\* C38: every promise add() returned is settled eventually, provided every
\* processor invocation settles and batchSize >= 1, and exactly once: a
\* settled promise never changes, and a resolved one holds the result of
\* its own item; items added while a batch is processed are not stranded
C38_AddPromisesSettle ==
  /\ [][\A k \in 1..MaxAdds :
          batch.promise[k].state \in {"resolved", "rejected"}
            => batch'.promise[k] = batch.promise[k]]_vars
  /\ [](\A k \in 1..MaxAdds :
          batch.promise[k].state = "resolved" => batch.promise[k].value = k)
  /\ \A k \in 1..MaxAdds :
       (batch.promise[k].state = "pending")
         ~> (batch.promise[k].state \in {"resolved", "rejected"})

\* the first promise is resolved, a later batch is being processed and an
\* item added meanwhile waits in the queue
C38_Witness ==
  /\ batch.promise[1].state = "resolved"
  /\ batch.processing
  /\ Len(batch.queue) > 0

\* C39: every promise a throttled function returns eventually settles, also
\* the promise of a call deferred inside the limit window when a further
\* call arrives before its timer fires
C39_ThrottledCallsSettle ==
  \A k \in 1..MaxCalls :
    (throttled.promise[k] = "pending")
      ~> (throttled.promise[k] \in {"resolved", "rejected"})

====
